---- MODULE Spec2Model ----
(***************************************************************************)
(* A model of sqlalchemy_history/builder.py: the Builder that collects     *)
(* versioned classes (instrument_versioned_classes) and configures them    *)
(* (configure_versioned_classes, guarded by prevent_reentry).              *)
(*                                                                         *)
(* The pass is split where code outside builder.py runs in the middle of   *)
(* it (the plugin notifications and the construction of mapped types):     *)
(* there a nested configure_versioned_classes call or a class discovery    *)
(* can arrive before the pass goes on.  pc is the position of the running  *)
(* invocation.                                                             *)
(***************************************************************************)
EXTENDS Integers, Sequences, FiniteSets, TLC

VARIABLES
    options,            \* manager.options: the global flags
    pending_classes,    \* manager.pending_classes (a list)
    tables,             \* manager.tables (a dict: insertion ordered)
    version_class_map,  \* manager.version_class_map
    transaction_cls,    \* manager.transaction_cls
    declarative_base,   \* manager.declarative_base
    relationships,      \* relationships attached to version classes
    finished,           \* what the finishing passes added to version classes
    in_handler,         \* the flag of prevent_reentry
    pc,                 \* position of the running invocation, "idle" if none
    idx,                \* build_models: index of the loop over pending_classes
    copies,             \* pending_classes_copies
    log,                \* what the current (or last) pass did, in order
    outcome,            \* how the most recent call ended
    built,              \* how often ModelBuilder ran for each class
    metadata,           \* manager.metadata
    entry               \* the running (or last) pass: the list it was entered
                        \* with and how the call before it had ended

vars == <<options, pending_classes, tables, version_class_map, transaction_cls,
          declarative_base, relationships, finished, in_handler, pc, idx,
          copies, log, outcome, built, metadata, entry>>

----------------------------------------------------------------------------
(* Bounds *)

\* instrument_versioned_classes is not called while the list has this length
MaxPending == 3
\* the counter of ModelBuilder runs per class saturates here
MaxBuilds == 2

----------------------------------------------------------------------------
(* The declarative classes the hosting application defines *)

None == "None"

\* "no table", "no version class", "no transaction class"
NoTable == [name |-> None, cols |-> {}]
NoClass == [model |-> None, table |-> None]
NoTransaction == [base |-> None]
NoEntry == [pending |-> <<>>, after |-> None]

Classes == {"Article", "Post", "Memo", "Tag", "Plain"}

\* the direct base class among the mapped classes
Parent(c) ==
    CASE c = "Post" -> "Article"
      [] c = "Memo" -> "Post"
      [] OTHER -> None

\* cls.__table__: Post has a table of its own (joined table inheritance),
\* Memo is mapped to the table of Post (single table inheritance)
TableOf(c) ==
    CASE c = "Article" -> "article"
      [] c = "Post" -> "post"
      [] c = "Memo" -> "post"
      [] c = "Tag" -> "tag"
      [] OTHER -> "plain"

\* hasattr(cls, "__versioned__"): inherited by the subclasses
HasVersioned(c) == c # "Plain"

\* the options a class overrides in its __versioned__
Override(c, name) ==
    CASE c = "Tag" /\ name = "versioning" -> "off"
      [] OTHER -> None

\* get_declarative_base(cls)
get_declarative_base(c) == IF c = "Tag" THEN "OtherBase" ELSE "Base"

\* cls.metadata: the declarative bases share one MetaData
MetadataOf(c) == "metadata"

\* the relationship properties of a class: <<key, target, direction>>
RelationshipsOf(c) ==
    CASE c = "Article" -> {<<"featured", "Post", "MANYTOONE">>,
                           <<"tags", "Tag", "MANYTOMANY">>}
      [] c = "Post" -> {<<"citing", "Article", "ONETOMANY">>}
      [] c = "Memo" -> {<<"owner", "Plain", "MANYTOONE">>}
      [] OTHER -> {}

\* classes with a renamed column, an association proxy, a hybrid property
HasAlias(c) == c \in {"Article", "Memo"}
HasProxy(c) == c \in {"Article", "Post"}
HasHybrid(c) == c \in {"Post", "Tag"}

RECURSIVE getmro(_)
getmro(c) == IF c = None THEN <<>> ELSE <<c>> \o getmro(Parent(c))

issubclass(c, d) == \E k \in 1..Len(getmro(c)) : getmro(c)[k] = d

SeqToSet(s) == {s[k] : k \in 1..Len(s)}

Min(S) == CHOOSE x \in S : \A y \in S : x <= y

----------------------------------------------------------------------------
(* Collaborators of the builder *)

\* manager.option(cls, name): the class's own setting, else the global one
option(o, c, name) ==
    IF Override(c, name) # None THEN FALSE ELSE o[name]

\* TableBuilder(manager, cls.__table__, model=cls)(inherited): the version
\* table of cls, extending the inherited version table when one is given
TableBuilder(c, inherited) ==
    [name |-> TableOf(c),
     cols |-> (IF inherited = NoTable THEN {} ELSE inherited.cols) \cup {c}]

\* ModelBuilder(manager, cls)(table, transaction_cls): the version class
ModelBuilder(c, table, tx) == [model |-> c, table |-> table.name]

\* cls.__versioned__.get("class"): set once the class has a version class
HasVersionClass(vmap, c) == vmap[c] # NoClass

\* manager.create_transaction_model(): builds the transaction class unless
\* there is one already
create_transaction_model(tx, base) ==
    IF tx = NoTransaction THEN [base |-> base] ELSE tx

----------------------------------------------------------------------------
(* Pure parts of the builder *)

\* the dict's keys in insertion order
Keys(tabs) == [k \in 1..Len(tabs) |-> tabs[k].key]

InTables(tabs, c) == \E k \in 1..Len(tabs) : tabs[k].key = c

Lookup(tabs, c) == tabs[CHOOSE k \in 1..Len(tabs) : tabs[k].key = c].table

\* tables[key] = table: a new key goes last, an old key keeps its place
Store(tabs, key, table) ==
    IF InTables(tabs, key)
    THEN [k \in 1..Len(tabs) |->
            IF tabs[k].key = key THEN [key |-> key, table |-> table] ELSE tabs[k]]
    ELSE Append(tabs, [key |-> key, table |-> table])

\* build_tables, lines 46-50: the first key that is a superclass of cls
\* mapped to the same table (0 when there is none)
InheritedIndex(tabs, c) ==
    LET S == {k \in 1..Len(tabs) :
                 issubclass(c, tabs[k].key) /\ TableOf(c) = TableOf(tabs[k].key)}
    IN  IF S = {} THEN 0 ELSE Min(S)

\* a faulty variant of lines 42-45: the create_tables option is not looked at
build_tables_one_all(o, tabs, c) ==
    IF ~option(o, c, "versioning") THEN tabs
    ELSE LET k == InheritedIndex(tabs, c)
         IN  IF k # 0
             THEN Store(tabs, tabs[k].key, TableBuilder(c, tabs[k].table))
             ELSE Store(tabs, c, TableBuilder(c, NoTable))

\* a faulty variant of lines 52-54: the table is derived without the
\* inherited table as its base
build_tables_one_fresh(o, tabs, c) ==
    IF ~option(o, c, "versioning") THEN tabs
    ELSE IF ~option(o, c, "create_tables") THEN tabs
    ELSE LET k == InheritedIndex(tabs, c)
         IN  IF k # 0
             THEN Store(tabs, tabs[k].key, TableBuilder(c, NoTable))
             ELSE Store(tabs, c, TableBuilder(c, NoTable))

\* build_tables, the body of the loop for one class
build_tables_one(o, tabs, c) ==
    IF ~option(o, c, "versioning") THEN tabs
    ELSE IF ~option(o, c, "create_tables") THEN tabs
    ELSE LET k == InheritedIndex(tabs, c)
         IN  IF k # 0
             THEN Store(tabs, tabs[k].key, TableBuilder(c, tabs[k].table))
             ELSE Store(tabs, c, TableBuilder(c, NoTable))

\* build_tables over pend[from..], stopping before index stop (where
\* TableBuilder raises); stop = 0: the loop runs to its end
RECURSIVE build_tables_from(_, _, _, _, _)
build_tables_from(o, tabs, pend, from, stop) ==
    IF from > Len(pend) \/ from = stop THEN tabs
    ELSE build_tables_from(o, build_tables_one(o, tabs, pend[from]),
                           pend, from + 1, stop)

build_tables(o, tabs, pend, stop) == build_tables_from(o, tabs, pend, 1, stop)

\* lines 52-57 for one class: the assignment to manager.tables, as
\* <<[key, cls, inherited]>> (inherited the table passed to the builder, if
\* any), or <<>> when the class is passed over
build_tables_assignment(o, tabs, c) ==
    IF ~option(o, c, "versioning") \/ ~option(o, c, "create_tables") THEN <<>>
    ELSE LET k == InheritedIndex(tabs, c)
         IN  IF k # 0
             THEN <<[key |-> tabs[k].key, cls |-> c, inherited |-> tabs[k].table]>>
             ELSE <<[key |-> c, cls |-> c, inherited |-> NoTable]>>

\* the assignments build_tables makes over pend[from..], in order
RECURSIVE build_tables_assignments(_, _, _, _, _)
build_tables_assignments(o, tabs, pend, from, stop) ==
    IF from > Len(pend) \/ from = stop THEN <<>>
    ELSE build_tables_assignment(o, tabs, pend[from]) \o
         build_tables_assignments(o, build_tables_one(o, tabs, pend[from]),
                                  pend, from + 1, stop)

\* a faulty variant of closest_matching_table: among the supertypes with a
\* table it takes the last of the method resolution order, not the first
closest_matching_table_last(tabs, model) ==
    IF InTables(tabs, model) THEN Lookup(tabs, model)
    ELSE LET subclasses == {c \in SeqToSet(Keys(tabs)) : issubclass(model, c)}
             mro == getmro(model)
             ordered == {k \in 1..Len(mro) : mro[k] \in subclasses}
         IN  IF ordered # {}
             THEN Lookup(tabs, mro[CHOOSE k \in ordered : \A j \in ordered : j <= k])
             ELSE NoTable

\* closest_matching_table(model)
closest_matching_table(tabs, model) ==
    IF InTables(tabs, model) THEN Lookup(tabs, model)
    ELSE LET subclasses == {c \in SeqToSet(Keys(tabs)) : issubclass(model, c)}
             mro == getmro(model)
             ordered == {k \in 1..Len(mro) : mro[k] \in subclasses}
         IN  IF ordered # {} THEN Lookup(tabs, mro[Min(ordered)]) ELSE NoTable

----------------------------------------------------------------------------
(* The state after the manager and the builder are constructed *)

OptionNames == {"versioning", "create_tables", "create_models"}

Init ==
    /\ options = [n \in OptionNames |-> TRUE]
    /\ pending_classes = <<>>
    /\ tables = <<>>
    /\ version_class_map = [c \in Classes |-> NoClass]
    /\ transaction_cls = NoTransaction
    /\ declarative_base = None
    /\ relationships = {}
    /\ finished = {}
    /\ in_handler = FALSE
    /\ pc = "idle"
    /\ idx = 0
    /\ copies = <<>>
    /\ log = <<>>
    /\ outcome = "none"
    /\ built = [c \in Classes |-> 0]
    /\ metadata = None
    /\ entry = NoEntry

\* the variables of the manager that a pass works on
registry == <<pending_classes, tables, version_class_map, transaction_cls,
              declarative_base, relationships, finished, built, metadata>>

\* where code outside the builder runs in the middle of a pass: the plugin
\* notifications, which follow the construction of a mapped class
HookPoints == {"after_build_tx_class", "after_version_class_built",
               "after_build_models"}

----------------------------------------------------------------------------
(* The application sets a global option between two passes *)

SetOption ==
    /\ pc = "idle"
    /\ \E n \in OptionNames : options' = [options EXCEPT ![n] = ~@]
    /\ outcome' = "none"
    /\ log' = <<>>
    /\ entry' = NoEntry
    /\ UNCHANGED <<registry, in_handler, pc, idx, copies>>

----------------------------------------------------------------------------
(* instrument_versioned_classes(mapper, cls) *)

\* a faulty variant of lines 120-124: the global option is not looked at
ShouldAppend_always(o, vmap, pend, c) ==
    /\ HasVersioned(c)
    /\ ~HasVersionClass(vmap, c)
    /\ c \notin SeqToSet(pend)

\* a faulty variant of line 124: the 'class' entry of __versioned__ is not
\* looked at
ShouldAppend_built(o, vmap, pend, c) ==
    /\ o["versioning"]
    /\ HasVersioned(c)
    /\ c \notin SeqToSet(pend)

\* lines 120-124: whether cls is appended
ShouldAppend(o, vmap, pend, c) ==
    /\ o["versioning"]
    /\ HasVersioned(c)
    /\ ~HasVersionClass(vmap, c)
    /\ c \notin SeqToSet(pend)

\* called when a class is mapped: between passes or, from a notification,
\* in the middle of one
instrument_versioned_classes ==
    /\ pc \in {"idle"} \cup HookPoints
    /\ Len(pending_classes) < MaxPending
    /\ \E c \in Classes :
         IF ShouldAppend(options, version_class_map, pending_classes, c)
         THEN /\ pending_classes' = Append(pending_classes, c)
              /\ metadata' = MetadataOf(c)
              /\ outcome' = IF pc = "idle" THEN "none" ELSE outcome
              /\ log' = IF pc = "idle" THEN <<>> ELSE log
              /\ entry' = IF pc = "idle" THEN NoEntry ELSE entry
         ELSE UNCHANGED <<pending_classes, metadata, outcome, log, entry>>
    /\ UNCHANGED <<options, tables, version_class_map, transaction_cls,
                   declarative_base, relationships, finished, in_handler, pc,
                   idx, copies, built>>

----------------------------------------------------------------------------
(* prevent_reentry: the wrapper check_reentry *)

\* a faulty variant of the dropped call: it still empties the pending list
check_reentry_drop_clears ==
    /\ outcome' = "dropped"
    /\ pending_classes' = <<>>
    /\ UNCHANGED <<options, tables, version_class_map, transaction_cls,
                   declarative_base, relationships, finished, built, metadata,
                   in_handler, pc, idx, copies, log, entry>>

\* lines 25-26: the call is dropped
check_reentry_drop ==
    /\ outcome' = "dropped"
    /\ UNCHANGED <<options, registry, in_handler, pc, idx, copies, log, entry>>

\* line 29, after the handler has returned
check_reentry_exit == in_handler' = FALSE

\* a faulty variant of the raise: the error is swallowed and the pass goes
\* on with the finishing passes
Raise_swallowed ==
    /\ pc' = "finishing"
    /\ outcome' = "raised"
    /\ idx' = 0
    /\ copies' = <<>>

\* the handler raises: the exception leaves check_reentry at line 28, the
\* frames of the pass are gone
Raise ==
    /\ pc' = "idle"
    /\ outcome' = "raised"
    /\ idx' = 0
    /\ copies' = <<>>

\* the handler returns
Return ==
    /\ pc' = "idle"
    /\ outcome' = "returned"
    /\ idx' = 0
    /\ copies' = <<>>
    /\ check_reentry_exit

\* a call that arrives while an invocation is running
NestedCall ==
    /\ pc # "idle"
    /\ in_handler
    /\ check_reentry_drop

----------------------------------------------------------------------------
(* configure_versioned_classes *)

\* the indexes of pend at which build_tables calls TableBuilder
TableBuilderCalls(o, pend) ==
    {k \in 1..Len(pend) :
        option(o, pend[k], "versioning") /\ option(o, pend[k], "create_tables")}

\* the call from outside a pass: lines 25-27 and 151-154
configure_versioned_classes ==
    /\ pc = "idle"
    /\ IF in_handler THEN check_reentry_drop
       ELSE /\ entry' = [pending |-> pending_classes, after |-> outcome]
            /\ IF ~options["versioning"]
               THEN /\ outcome' = "disabled"
                    /\ log' = <<>>
                    /\ check_reentry_exit
                    /\ UNCHANGED <<options, registry, pc, idx, copies>>
               ELSE /\ \E stop \in {0} \cup TableBuilderCalls(options, pending_classes) :
                         /\ tables' = build_tables(options, tables, pending_classes, stop)
                         /\ log' = <<<<"build_tables", None>>>>
                         /\ IF stop # 0
                            THEN /\ Raise
                                 /\ in_handler' = TRUE
                            ELSE /\ pc' = "build_transaction_class"
                                 /\ outcome' = "running"
                                 /\ in_handler' = TRUE
                                 /\ UNCHANGED <<idx, copies>>
                    /\ UNCHANGED <<options, pending_classes, version_class_map,
                                   transaction_cls, declarative_base, relationships,
                                   finished, built, metadata>>

\* a faulty variant of lines 129-133: nothing is done once there is a
\* transaction class
build_transaction_class_once ==
    /\ pc = "build_transaction_class"
    /\ IF pending_classes # <<>> /\ transaction_cls = NoTransaction
       THEN /\ declarative_base' = get_declarative_base(pending_classes[1])
            /\ \E fail \in BOOLEAN :
                 IF fail
                 THEN /\ Raise
                      /\ UNCHANGED <<transaction_cls, log, in_handler>>
                 ELSE /\ transaction_cls' =
                            create_transaction_model(transaction_cls, declarative_base')
                      /\ log' = log \o <<<<"create_transaction_model", None>>,
                                         <<"after_build_tx_class", None>>>>
                      /\ pc' = "after_build_tx_class"
                      /\ UNCHANGED <<in_handler, idx, copies, outcome>>
       ELSE /\ pc' = "create_models"
            /\ UNCHANGED <<declarative_base, transaction_cls, log, in_handler,
                           idx, copies, outcome>>
    /\ UNCHANGED entry
    /\ UNCHANGED <<options, pending_classes, tables, version_class_map,
                   relationships, finished, built, metadata>>

\* line 155: build_transaction_class, up to the notification
build_transaction_class ==
    /\ pc = "build_transaction_class"
    /\ IF pending_classes # <<>>
       THEN /\ declarative_base' = get_declarative_base(pending_classes[1])
            /\ \E fail \in BOOLEAN :
                 IF fail
                 THEN /\ Raise
                      /\ UNCHANGED <<transaction_cls, log, in_handler>>
                 ELSE /\ transaction_cls' =
                            create_transaction_model(transaction_cls, declarative_base')
                      /\ log' = log \o <<<<"create_transaction_model", None>>,
                                         <<"after_build_tx_class", None>>>>
                      /\ pc' = "after_build_tx_class"
                      /\ UNCHANGED <<in_handler, idx, copies, outcome>>
       ELSE /\ pc' = "create_models"
            /\ UNCHANGED <<declarative_base, transaction_cls, log, in_handler,
                           idx, copies, outcome>>
    /\ UNCHANGED entry
    /\ UNCHANGED <<options, pending_classes, tables, version_class_map,
                   relationships, finished, built, metadata>>

\* after_build_tx_class returns
after_build_tx_class_returns ==
    /\ pc = "after_build_tx_class"
    /\ pc' = "create_models"
    /\ UNCHANGED <<options, registry, in_handler, idx, copies, log, outcome, entry>>

\* a faulty variant of lines 157-159: the handler returns without emptying
\* the pending list
create_models_check_keeps ==
    /\ pc = "create_models"
    /\ IF ~options["create_models"]
       THEN /\ Return
            /\ UNCHANGED pending_classes
       ELSE IF pending_classes # <<>>
       THEN /\ pc' = "build_models"
            /\ idx' = 1
            /\ UNCHANGED <<pending_classes, in_handler, copies, outcome>>
       ELSE /\ pc' = "build_relationships"
            /\ copies' = pending_classes
            /\ pending_classes' = <<>>
            /\ UNCHANGED <<in_handler, idx, outcome>>
    /\ UNCHANGED entry
    /\ UNCHANGED <<options, tables, version_class_map, transaction_cls,
                   declarative_base, relationships, finished, built, metadata, log>>

\* a faulty variant of lines 157-161: create_models is not looked at
create_models_check_ignored ==
    /\ pc = "create_models"
    /\ IF pending_classes # <<>>
       THEN /\ pc' = "build_models"
            /\ idx' = 1
            /\ UNCHANGED <<pending_classes, in_handler, copies, outcome>>
       ELSE /\ pc' = "build_relationships"
            /\ copies' = pending_classes
            /\ pending_classes' = <<>>
            /\ UNCHANGED <<in_handler, idx, outcome>>
    /\ UNCHANGED entry
    /\ UNCHANGED <<options, tables, version_class_map, transaction_cls,
                   declarative_base, relationships, finished, built, metadata, log>>

\* lines 157-161: without create_models the list is emptied and the handler
\* returns; else build_models starts (line 81) or, the list being empty,
\* lines 165-166 follow
create_models_check ==
    /\ pc = "create_models"
    /\ IF ~options["create_models"]
       THEN /\ pending_classes' = <<>>
            /\ Return
       ELSE IF pending_classes # <<>>
       THEN /\ pc' = "build_models"
            /\ idx' = 1
            /\ UNCHANGED <<pending_classes, in_handler, copies, outcome>>
       ELSE /\ pc' = "build_relationships"
            /\ copies' = pending_classes
            /\ pending_classes' = <<>>
            /\ UNCHANGED <<in_handler, idx, outcome>>
    /\ UNCHANGED entry
    /\ UNCHANGED <<options, tables, version_class_map, transaction_cls,
                   declarative_base, relationships, finished, built, metadata, log>>

\* a faulty variant of lines 88-91: the notification is fired twice
ModelEvents_twice(cls) ==
    <<<<"ModelBuilder", cls>>, <<"after_version_class_built", cls>>,
      <<"after_version_class_built", cls>>>>

\* lines 88-91: ModelBuilder has built and registered the version class of
\* cls, then the notification is fired
ModelEvents(cls) ==
    <<<<"ModelBuilder", cls>>, <<"after_version_class_built", cls>>>>

\* a faulty variant of lines 86-87: a class without a table is an error
build_models_strict ==
    /\ pc = "build_models"
    /\ IF idx > Len(pending_classes)
       THEN /\ log' = Append(log, <<"after_build_models", None>>)
            /\ pc' = "after_build_models"
            /\ UNCHANGED <<version_class_map, built, in_handler, idx, copies,
                           outcome>>
       ELSE LET cls == pending_classes[idx]
                table == closest_matching_table(tables, cls)
            IN  IF ~option(options, cls, "versioning")
                THEN /\ idx' = idx + 1
                     /\ UNCHANGED <<version_class_map, built, in_handler, pc,
                                    copies, log, outcome>>
                ELSE IF table = NoTable
                THEN /\ Raise
                     /\ UNCHANGED <<version_class_map, built, log, in_handler>>
                ELSE \E fail \in BOOLEAN :
                       IF fail
                       THEN /\ Raise
                            /\ UNCHANGED <<version_class_map, built, log, in_handler>>
                       ELSE /\ version_class_map' =
                                  [version_class_map EXCEPT
                                     ![cls] = ModelBuilder(cls, table, transaction_cls)]
                            /\ built' = [built EXCEPT
                                           ![cls] = IF @ < MaxBuilds THEN @ + 1 ELSE @]
                            /\ log' = log \o ModelEvents(cls)
                            /\ pc' = "after_version_class_built"
                            /\ UNCHANGED <<in_handler, idx, copies, outcome>>
    /\ UNCHANGED entry
    /\ UNCHANGED <<options, pending_classes, tables, transaction_cls,
                   declarative_base, relationships, finished, metadata>>

\* build_models, one turn of the loop of lines 82-91 on pending_classes[idx],
\* up to the notification; past the end of the list, line 93.  The loop
\* reads the list itself: a class appended meanwhile gets its turn
build_models ==
    /\ pc = "build_models"
    /\ IF idx > Len(pending_classes)
       THEN /\ log' = Append(log, <<"after_build_models", None>>)
            /\ pc' = "after_build_models"
            /\ UNCHANGED <<version_class_map, built, in_handler, idx, copies,
                           outcome>>
       ELSE LET cls == pending_classes[idx]
                table == closest_matching_table(tables, cls)
            IN  IF ~option(options, cls, "versioning") \/ table = NoTable
                THEN /\ idx' = idx + 1
                     /\ UNCHANGED <<version_class_map, built, in_handler, pc,
                                    copies, log, outcome>>
                ELSE \E fail \in BOOLEAN :
                       IF fail
                       THEN /\ Raise
                            /\ UNCHANGED <<version_class_map, built, log, in_handler>>
                       ELSE /\ version_class_map' =
                                  [version_class_map EXCEPT
                                     ![cls] = ModelBuilder(cls, table, transaction_cls)]
                            /\ built' = [built EXCEPT
                                           ![cls] = IF @ < MaxBuilds THEN @ + 1 ELSE @]
                            /\ log' = log \o ModelEvents(cls)
                            /\ pc' = "after_version_class_built"
                            /\ UNCHANGED <<in_handler, idx, copies, outcome>>
    /\ UNCHANGED entry
    /\ UNCHANGED <<options, pending_classes, tables, transaction_cls,
                   declarative_base, relationships, finished, metadata>>

\* after_version_class_built returns: the loop goes on
after_version_class_built_returns ==
    /\ pc = "after_version_class_built"
    /\ pc' = "build_models"
    /\ idx' = idx + 1
    /\ UNCHANGED <<options, registry, in_handler, copies, log, outcome, entry>>

\* a faulty variant of lines 165-166: the pending list is emptied before it
\* is copied
after_build_models_returns_late_copy ==
    /\ pc = "after_build_models"
    /\ copies' = <<>>
    /\ pending_classes' = <<>>
    /\ pc' = "build_relationships"
    /\ UNCHANGED <<options, tables, version_class_map, transaction_cls,
                   declarative_base, relationships, finished, built, metadata,
                   in_handler, idx, log, outcome, entry>>

\* a faulty variant of lines 165-166: the pending list is copied, not emptied
after_build_models_returns_keeps ==
    /\ pc = "after_build_models"
    /\ copies' = pending_classes
    /\ pc' = "build_relationships"
    /\ UNCHANGED <<options, pending_classes, tables, version_class_map,
                   transaction_cls, declarative_base, relationships, finished,
                   built, metadata, in_handler, idx, log, outcome, entry>>

\* after_build_models returns: lines 165-166
after_build_models_returns ==
    /\ pc = "after_build_models"
    /\ copies' = pending_classes
    /\ pending_classes' = <<>>
    /\ pc' = "build_relationships"
    /\ UNCHANGED entry
    /\ UNCHANGED <<options, tables, version_class_map, transaction_cls,
                   declarative_base, relationships, finished, built, metadata,
                   in_handler, idx, log, outcome>>

\* RelationshipBuilder(manager, cls, prop)() over the properties of cls: a
\* relationship is mirrored on the version class of cls when its target has
\* a version class
RelationshipBuilder(vmap, cls) ==
    IF vmap[cls] = NoClass THEN {}
    ELSE {<<cls, r[1], r[2], r[3]>> : r \in {q \in RelationshipsOf(cls) : vmap[q[2]] # NoClass}}

\* the classes of version_classes[1..n] that build_relationships works on
RelationshipClasses(o, version_classes, n) ==
    {version_classes[k] : k \in {j \in 1..n : option(o, version_classes[j], "versioning")}}

\* what build_relationships has logged after version_classes[1..n]
RECURSIVE RelationshipLog(_, _, _)
RelationshipLog(o, version_classes, n) ==
    IF n = 0 THEN <<>>
    ELSE RelationshipLog(o, version_classes, n - 1) \o
         (IF option(o, version_classes[n], "versioning")
          THEN <<<<"RelationshipBuilder", version_classes[n]>>>> ELSE <<>>)

\* a faulty variant of line 167: build_relationships is handed the pending
\* list, which line 166 has emptied, not the copy
build_relationships_live ==
    /\ pc = "build_relationships"
    /\ \E stop \in {0} \cup {k \in 1..Len(pending_classes) :
                                option(options, pending_classes[k], "versioning")} :
         LET n == IF stop = 0 THEN Len(pending_classes) ELSE stop - 1
         IN  /\ relationships' = relationships \cup
                    UNION {RelationshipBuilder(version_class_map, c) :
                              c \in RelationshipClasses(options, pending_classes, n)}
             /\ log' = log \o RelationshipLog(options, pending_classes, n)
             /\ IF stop # 0 THEN Raise /\ UNCHANGED in_handler
                ELSE /\ pc' = "finishing"
                     /\ UNCHANGED <<in_handler, idx, copies, outcome>>
    /\ UNCHANGED entry
    /\ UNCHANGED <<options, pending_classes, tables, version_class_map,
                   transaction_cls, declarative_base, finished, built, metadata>>

\* line 167: build_relationships(pending_classes_copies); RelationshipBuilder
\* may raise at the class of index stop
build_relationships ==
    /\ pc = "build_relationships"
    /\ \E stop \in {0} \cup {k \in 1..Len(copies) : option(options, copies[k], "versioning")} :
         LET n == IF stop = 0 THEN Len(copies) ELSE stop - 1
         IN  /\ relationships' = relationships \cup
                    UNION {RelationshipBuilder(version_class_map, c) :
                              c \in RelationshipClasses(options, copies, n)}
             /\ log' = log \o RelationshipLog(options, copies, n)
             /\ IF stop # 0 THEN Raise /\ UNCHANGED in_handler
                ELSE /\ pc' = "finishing"
                     /\ UNCHANGED <<in_handler, idx, copies, outcome>>
    /\ UNCHANGED entry
    /\ UNCHANGED <<options, pending_classes, tables, version_class_map,
                   transaction_cls, declarative_base, finished, built, metadata>>

\* lines 169-171 on version_classes: create_column_aliases,
\* create_association_proxies and create_hybrid_properties add to the version
\* class of a class that has one
Finishing(vmap, version_classes) ==
    {<<c, "alias">> : c \in {d \in SeqToSet(version_classes) : HasAlias(d) /\ vmap[d] # NoClass}}
    \cup {<<c, "proxy">> : c \in {d \in SeqToSet(version_classes) : HasProxy(d) /\ vmap[d] # NoClass}}
    \cup {<<c, "hybrid">> : c \in {d \in SeqToSet(version_classes) : HasHybrid(d) /\ vmap[d] # NoClass}}

\* lines 168-171, then the handler returns.  enable_active_history only sets
\* a flag on the attributes of the original classes, which nothing here reads.
\* Lines 219 and 233 ask utils.version_class for the version class of every
\* class with a proxy or a hybrid property, also of one that has none: what
\* it does then is not in this file, and either the pass fails or nothing is
\* added for that class
finishing_passes ==
    /\ pc = "finishing"
    /\ \E fail \in (IF copies = <<>> THEN {FALSE} ELSE BOOLEAN) :
         IF fail
         THEN /\ Raise
              /\ UNCHANGED <<finished, log, in_handler>>
         ELSE /\ finished' = finished \cup Finishing(version_class_map, copies)
              /\ log' = log \o <<<<"enable_active_history", None>>,
                                 <<"create_column_aliases", None>>,
                                 <<"create_association_proxies", None>>,
                                 <<"create_hybrid_properties", None>>>>
              /\ Return
    /\ UNCHANGED entry
    /\ UNCHANGED <<options, pending_classes, tables, version_class_map,
                   transaction_cls, declarative_base, relationships, built,
                   metadata>>

----------------------------------------------------------------------------

Next ==
    \/ SetOption
    \/ instrument_versioned_classes
    \/ NestedCall
    \/ configure_versioned_classes
    \/ build_transaction_class
    \/ after_build_tx_class_returns
    \/ create_models_check
    \/ build_models
    \/ after_version_class_built_returns
    \/ after_build_models_returns
    \/ build_relationships
    \/ finishing_passes

Spec == Init /\ [][Next]_vars

----------------------------------------------------------------------------
(* Properties *)

Notifications == {"after_build_tx_class", "after_version_class_built",
                  "after_build_models"}

\* the events of the log with the given name
Events(l, name) == {k \in 1..Len(l) : l[k][1] = name}

\* a call is dropped in this step while an invocation is running
NestedCallStep == pc # "idle" /\ outcome' = "dropped" /\ outcome # "dropped"

\* C1: a call to configure_versioned_classes that arrives while an
\* invocation is running finds the flag set, so it is dropped; the dropped
\* call changes neither the pending list, the tables, the version classes
\* nor the transaction class, fires no notification (the log is unchanged)
\* and leaves the running invocation where it was
C1_NestedCallIsDropped ==
    /\ [](pc # "idle" => in_handler)
    /\ [][NestedCallStep =>
            UNCHANGED <<pending_classes, tables, version_class_map,
                        transaction_cls, declarative_base, relationships,
                        finished, log, pc, idx, copies, in_handler>>]_vars

\* a call was dropped inside after_version_class_built, with classes pending
C1_Witness ==
    /\ pc = "after_version_class_built"
    /\ outcome = "dropped"
    /\ Len(pending_classes) >= 2
    /\ idx = 1

\* C2: ModelBuilder runs at most once for a class, whatever the discoveries,
\* the passes and the calls dropped inside notifications
C2_OneVersionClassPerClass == \A c \in Classes : built[c] <= 1

\* a call was dropped inside the notification for one class after another
\* class had had its version class built in an earlier pass
C2_Witness ==
    /\ pc = "after_version_class_built"
    /\ outcome = "dropped"
    /\ built["Post"] = 1
    /\ built["Article"] = 1
    /\ pending_classes = <<"Post">>

\* a step of a run that was entered right after a run had returned, nothing
\* having been discovered or set in between
SecondRunStep == entry'.after = "returned" /\ (pc # "idle" \/ pc' # "idle")

BuildEvents == Notifications \cup
               {"create_transaction_model", "ModelBuilder", "RelationshipBuilder"}

\* C3: after a run of configure_versioned_classes that went through the
\* pass (versioning on, no error) has returned, the pending list is empty,
\* and a run that follows it at once (nothing discovered, no option set in
\* between) stores no table, builds no version class and no transaction
\* class, derives no relationship and fires no notification
C3_SecondRunAddsNothing ==
    /\ [](pc = "idle" /\ outcome = "returned" => pending_classes = <<>>)
    /\ [][SecondRunStep =>
            /\ entry'.pending = <<>>
            /\ pending_classes' = <<>>
            /\ UNCHANGED <<tables, version_class_map, transaction_cls,
                           relationships, finished, built>>
            /\ \A k \in 1..Len(log') : log'[k][1] \notin BuildEvents]_vars

\* a second run has returned, with tables and version classes in place
C3_Witness ==
    /\ pc = "idle"
    /\ outcome = "returned"
    /\ entry.after = "returned"
    /\ InTables(tables, "Article")
    /\ version_class_map["Article"] # NoClass
    /\ Len(log) > 1

\* C4 as claimed: whenever no invocation is running the flag is clear
C4_FlagClearWhenIdle == pc = "idle" => ~in_handler

\* a step in which the handler raises
RaiseStep == outcome' = "raised" /\ outcome # "raised"

\* C5: when a step of the pass raises, the invocation is over at once (no
\* later step of the pass runs: nothing is added to its log afterwards) and
\* the pending list is what it was when the step failed
C5_ErrorAbortsPass ==
    /\ [][RaiseStep =>
            /\ pc' = "idle"
            /\ pending_classes' = pending_classes
            /\ copies' = <<>>]_vars
    /\ [][outcome = "raised" =>
            /\ pc' = "idle"
            /\ log' = log \/ log' = <<>>
            /\ UNCHANGED <<tables, version_class_map, transaction_cls,
                           relationships, finished>>]_vars

\* ModelBuilder has raised after the version class of an earlier class of
\* the list was built
C5_Witness ==
    /\ outcome = "raised"
    /\ Len(pending_classes) >= 2
    /\ version_class_map[pending_classes[1]] # NoClass
    /\ version_class_map[pending_classes[2]] = NoClass

\* the classes of a list that build_tables derives a table for
Derived(o, pend) ==
    {c \in SeqToSet(pend) : option(o, c, "versioning") /\ option(o, c, "create_tables")}

\* C6 as claimed: when build_tables has run over a pending list that holds
\* a class and a subclass mapped to the same table, in either order, the
\* table map has an entry under the ancestor and none under the subclass
C6_OneTablePerHierarchy ==
    pc = "build_transaction_class" =>
        \A c, d \in Derived(options, entry.pending) :
            (c # d /\ issubclass(c, d) /\ TableOf(c) = TableOf(d)) =>
                InTables(tables, d) /\ ~InTables(tables, c)

\* the keys of the table map that are model or a supertype of it
Candidates(tabs, model) == {c \in SeqToSet(Keys(tabs)) : issubclass(model, c)}

MroIndex(model, c) == CHOOSE k \in 1..Len(getmro(model)) : getmro(model)[k] = c

\* C7: closest_matching_table(model) is the table stored under model when
\* model is a key; else the table of the key that is a supertype of model
\* and comes first in its method resolution order, which is the most
\* specific of these keys; else none.  build_models, which calls it, leaves
\* the table map as it is
C7_ClosestMatchingTable ==
    /\ [](\A m \in Classes :
            LET r == closest_matching_table(tables, m)
                cand == Candidates(tables, m)
            IN  /\ InTables(tables, m) => r = Lookup(tables, m)
                /\ (~InTables(tables, m) /\ cand # {}) =>
                      \E a \in cand :
                          /\ r = Lookup(tables, a)
                          /\ \A b \in cand : MroIndex(m, a) <= MroIndex(m, b)
                          /\ \A b \in cand : issubclass(a, b)
                /\ cand = {} => r = NoTable)
    /\ [][(pc = "build_models" \/ pc = "after_version_class_built") =>
            UNCHANGED tables]_vars

\* the version class of Memo was built on the table stored under Post, with
\* Article a key as well and Memo none
C7_Witness ==
    /\ pc = "after_version_class_built"
    /\ pending_classes[idx] = "Memo"
    /\ InTables(tables, "Article")
    /\ InTables(tables, "Post")
    /\ ~InTables(tables, "Memo")
    /\ Lookup(tables, "Article") # Lookup(tables, "Post")
    /\ closest_matching_table(tables, "Memo") = Lookup(tables, "Post")
    /\ version_class_map["Memo"].table = "post"

\* C8: with versioning on and create_models off no step builds a version
\* class, derives a relationship or runs a finishing pass, and a pass over
\* a list that is not empty derives the tables, builds the transaction class
\* (the only notification is after_build_tx_class) and ends with the list
\* empty
C8_CreateModelsOff ==
    /\ [][~options["create_models"] =>
            UNCHANGED <<version_class_map, relationships, finished, built>>]_vars
    /\ []((/\ pc = "idle"
           /\ outcome = "returned"
           /\ ~options["create_models"]
           /\ entry.pending # <<>>) =>
             /\ pending_classes = <<>>
             /\ log = <<<<"build_tables", None>>,
                        <<"create_transaction_model", None>>,
                        <<"after_build_tx_class", None>>>>
             /\ transaction_cls # NoTransaction
             /\ \A c \in Derived(options, entry.pending) :
                    /\ closest_matching_table(tables, c).name = TableOf(c)
                    /\ c \in closest_matching_table(tables, c).cols)

\* such a pass has returned, with a version class left from an earlier pass
C8_Witness ==
    /\ pc = "idle"
    /\ outcome = "returned"
    /\ ~options["create_models"]
    /\ Len(entry.pending) >= 2
    /\ InTables(tables, "Post")
    /\ version_class_map["Post"] = NoClass
    /\ version_class_map["Article"] # NoClass

\* C9: while versioning is globally off no step (a call of
\* configure_versioned_classes, a call of instrument_versioned_classes)
\* changes the pending list, the tables, the version classes or the
\* transaction class, and none fires a notification
C9_VersioningOff ==
    [][~options["versioning"] =>
         /\ UNCHANGED <<pending_classes, tables, version_class_map,
                        transaction_cls, declarative_base, relationships>>
         /\ log' = <<>>
         /\ pc' = "idle"]_vars

\* configure_versioned_classes was called with versioning off, classes
\* pending and tables derived before
C9_Witness ==
    /\ ~options["versioning"]
    /\ outcome = "disabled"
    /\ entry.pending # <<>>
    /\ pending_classes = entry.pending
    /\ tables # <<>>

\* the events of the log with the given name about class c
EventsOf(l, name, c) == {k \in Events(l, name) : l[k][2] = c}

\* the running pass is past build_models, or the pass has returned
PastBuildModels ==
    \/ pc \in {"after_build_models", "build_relationships", "finishing"}
    \/ pc = "idle" /\ outcome = "returned"

\* C10: in the log of a pass, after_version_class_built is fired once for
\* each class whose version class ModelBuilder built in the pass and for no
\* other class, right after the version class is built and registered and
\* before any RelationshipBuilder runs; after_build_models is fired at most
\* once, after every after_version_class_built, and once when the pass has
\* built a version class and is past build_models
C10_Notifications ==
    /\ [](\A c \in Classes :
            /\ Cardinality(EventsOf(log, "after_version_class_built", c)) =
               Cardinality(EventsOf(log, "ModelBuilder", c))
            /\ Cardinality(EventsOf(log, "after_version_class_built", c)) <= 1)
    /\ [](\A k \in Events(log, "after_version_class_built") :
            /\ k > 1
            /\ log[k - 1] = <<"ModelBuilder", log[k][2]>>
            /\ version_class_map[log[k][2]] # NoClass
            /\ \A j \in Events(log, "RelationshipBuilder") : k < j
            /\ \A j \in Events(log, "after_build_models") : k < j)
    /\ [](Cardinality(Events(log, "after_build_models")) <= 1)
    /\ []((Events(log, "ModelBuilder") # {} /\ PastBuildModels) =>
             Cardinality(Events(log, "after_build_models")) = 1)
    /\ [][\A c \in Classes :
            version_class_map'[c] # version_class_map[c] =>
                /\ log' = log \o <<<<"ModelBuilder", c>>,
                                   <<"after_version_class_built", c>>>>
                /\ pc' = "after_version_class_built"]_vars

\* a pass has returned that built two version classes, skipped a class and
\* derived relationships
C10_Witness ==
    /\ pc = "idle"
    /\ outcome = "returned"
    /\ Cardinality(Events(log, "after_version_class_built")) = 2
    /\ Cardinality(Events(log, "RelationshipBuilder")) = 2
    /\ "Tag" \in SeqToSet(entry.pending)
    /\ Len(entry.pending) = 3

\* the step of the pass that an event of the log belongs to
StepOf(name) ==
    CASE name = "build_tables" -> 1
      [] name \in {"create_transaction_model", "after_build_tx_class"} -> 2
      [] name \in {"ModelBuilder", "after_version_class_built",
                   "after_build_models"} -> 3
      [] name = "RelationshipBuilder" -> 4
      [] OTHER -> 5

IsPrefix(s, t) == Len(s) <= Len(t) /\ \A k \in 1..Len(s) : s[k] = t[k]

\* the classes of a relationship set, of a set of finishing entries
SourcesOf(S) == {r[1] : r \in S}

TxEventStep ==
    Cardinality(Events(log', "after_build_tx_class")) >
        Cardinality(Events(log, "after_build_tx_class"))

\* C12 as claimed: once there is a transaction class, no step builds it
\* again, changes the recorded declarative base or fires
\* after_build_tx_class
C12_TransactionBuildIsNoOp ==
    [][transaction_cls # NoTransaction =>
         /\ transaction_cls' = transaction_cls
         /\ declarative_base' = declarative_base
         /\ ~TxEventStep]_vars

\* C12 as amended: the transaction class is built at most once, by
\* build_transaction_class in a pass with a list that is not empty, from the
\* declarative base of the first class of that list; every pass with a list
\* that is not empty, the later ones too, records the declarative base of
\* its first class and, unless the step fails, fires after_build_tx_class
\* once; with an empty list the step does nothing
C12_TransactionBuiltOnce ==
    /\ [][transaction_cls # NoTransaction =>
            transaction_cls' = transaction_cls]_vars
    /\ [][transaction_cls' # transaction_cls =>
            /\ pc = "build_transaction_class"
            /\ pending_classes # <<>>
            /\ transaction_cls' = [base |-> get_declarative_base(pending_classes[1])]]_vars
    /\ [][(pc = "build_transaction_class" /\ pc' # pc /\ pending_classes # <<>>) =>
            /\ declarative_base' = get_declarative_base(pending_classes[1])
            /\ outcome' # "raised" =>
                  /\ log' = log \o <<<<"create_transaction_model", None>>,
                                     <<"after_build_tx_class", None>>>>
                  /\ transaction_cls' # NoTransaction
                  /\ pc' = "after_build_tx_class"]_vars
    /\ [][(pc = "build_transaction_class" /\ pending_classes = <<>>) =>
            UNCHANGED <<transaction_cls, declarative_base, log>>]_vars
    /\ [][(declarative_base' # declarative_base \/ TxEventStep) =>
            pc = "build_transaction_class"]_vars
    /\ [](Cardinality(Events(log, "after_build_tx_class")) <= 1)

\* a later pass, over a list whose first class has another declarative
\* base, has fired after_build_tx_class: the transaction class is the one
\* built from the first base, the recorded base is the other one
C12_Witness ==
    /\ pc = "after_build_tx_class"
    /\ transaction_cls = [base |-> "Base"]
    /\ declarative_base = "OtherBase"
    /\ version_class_map["Article"] # NoClass
    /\ pending_classes[1] = "Tag"

NoDuplicates(s) == \A i, j \in 1..Len(s) : s[i] = s[j] => i = j

\* the classes that are pending and have a version class
PendingAndBuilt ==
    {c \in SeqToSet(pending_classes) : version_class_map[c] # NoClass}

BuildTablesStep ==
    /\ pc = "idle"
    /\ ~in_handler
    /\ options["versioning"]
    /\ outcome' \in {"running", "raised"}

\* the assignments of the build_tables run of this step (the run went to
\* the end of the list, or TableBuilder raised at one of its calls)
AssignmentsOfStep ==
    UNION {SeqToSet(build_tables_assignments(options, tables, pending_classes, 1, stop)) :
              stop \in {n \in {0} \cup TableBuilderCalls(options, pending_classes) :
                           /\ (n = 0) <=> (outcome' = "running")
                           /\ tables' = build_tables(options, tables, pending_classes, n)}}

\* the pending classes that build_tables may merge into the entry of K
MergedInto(o, pend, K) ==
    {c \in Derived(o, pend) : issubclass(c, K) /\ TableOf(c) = TableOf(K)}

\* C14 as claimed: no key of the table map is removed, and an assignment
\* to an existing key K is made only for a pending class that is a proper
\* subclass of K mapped to the table of K
C14_ReplacedOnlyBySubclass ==
    /\ [][IsPrefix(Keys(tables), Keys(tables'))]_vars
    /\ [][BuildTablesStep =>
            \A a \in AssignmentsOfStep :
                a.inherited # NoTable =>
                    /\ a.cls # a.key
                    /\ issubclass(a.cls, a.key)
                    /\ TableOf(a.cls) = TableOf(a.key)]_vars

\* C14 as amended: no key of the table map is removed (the keys keep their
\* order) and only build_tables changes the map; an assignment to an
\* existing key K is made only for a pending class that is K itself or a
\* subclass of K mapped to the table of K, and the new table is derived
\* from the table K had (it keeps what that table held); an assignment to a
\* new key is keyed by the class itself; the entry of a class for which no
\* such class is pending stays as it is
C14_TableMapGrows ==
    /\ [][IsPrefix(Keys(tables), Keys(tables'))]_vars
    /\ [][tables' # tables => BuildTablesStep]_vars
    /\ [][BuildTablesStep =>
            \A a \in AssignmentsOfStep :
                /\ issubclass(a.cls, a.key)
                /\ TableOf(a.cls) = TableOf(a.key)
                /\ a.inherited = NoTable => a.key = a.cls]_vars
    /\ [][BuildTablesStep =>
            \A K \in SeqToSet(Keys(tables')) :
                LET new == Lookup(tables', K)
                    merged == MergedInto(options, pending_classes, K)
                IN  /\ new.name = TableOf(K)
                    /\ K \in new.cols
                    /\ InTables(tables, K) =>
                          /\ Lookup(tables, K).cols \subseteq new.cols
                          /\ new.cols \subseteq Lookup(tables, K).cols \cup merged
                          /\ merged = {} => new = Lookup(tables, K)
                    /\ ~InTables(tables, K) =>
                          /\ K \in merged
                          /\ new.cols \subseteq merged]_vars

\* build_tables has run over a list that holds only Post, which was a key
\* of the table map before (the table of Memo had been merged into its
\* entry): the entry of Post was assigned again, with its own table as base
C14_Witness ==
    /\ pc = "build_transaction_class"
    /\ entry.pending = <<"Post">>
    /\ InTables(tables, "Post")
    /\ Lookup(tables, "Post").cols = {"Post", "Memo"}
    /\ InTables(tables, "Article")

\* the relationships mirrored on the version class of c
MirroredOn(rels, c) == {r \in rels : r[1] = c}

\* the relationships of c whose target has a version class, as mirrored
Mirrorable(vmap, c) ==
    {<<c, q[1], q[2], q[3]>> :
        q \in {r \in RelationshipsOf(c) : vmap[r[2]] # NoClass}}

\* C15: when build_relationships has gone over the copy of the list, the
\* version class of each of its classes with versioning on has exactly the
\* relationships of the class whose target has a version class by then
\* (wherever the target stood in the list), each with the key, the target
\* and the direction of the original; the others are left out, and the
\* relationships of the classes outside the list are as they were.  Every
\* mirrored relationship joins two classes that have version classes
C15_RelationshipsMirrored ==
    /\ [][(pc = "build_relationships" /\ pc' = "finishing") =>
            /\ \A c \in SeqToSet(copies) :
                   option(options, c, "versioning") =>
                       MirroredOn(relationships', c) =
                           IF version_class_map[c] = NoClass THEN {}
                           ELSE Mirrorable(version_class_map, c)
            /\ \A c \in Classes \ SeqToSet(copies) :
                   MirroredOn(relationships', c) = MirroredOn(relationships, c)]_vars
    /\ [](\A r \in relationships :
            /\ version_class_map[r[1]] # NoClass
            /\ version_class_map[r[3]] # NoClass
            /\ <<r[2], r[3], r[4]>> \in RelationshipsOf(r[1]))

\* a pass over three classes has returned: the relationship of Article to
\* Post, which stood later in the list, is mirrored; its relationship to
\* Tag, which has no version class, is left out
C15_Witness ==
    /\ pc = "idle"
    /\ outcome = "returned"
    /\ Len(entry.pending) = 3
    /\ entry.pending[1] = "Article"
    /\ entry.pending[3] = "Post"
    /\ MirroredOn(relationships, "Article") =
           {<<"Article", "featured", "Post", "MANYTOONE">>}
    /\ version_class_map["Tag"] = NoClass

RemovedFromPending == SeqToSet(pending_classes) \ SeqToSet(pending_classes')

\* C18 as claimed: a class is taken out of the pending list only after table
\* derivation has run for it, that is, when it was in the list that the
\* build_tables run of the pass went over (the list the pass was entered
\* with); a class appended while the pass runs stays in the list
C18_NoDiscoveredEntityLost ==
    [][RemovedFromPending \subseteq SeqToSet(entry.pending)]_vars

\* the classes whose own versioning option is off
OwnVersioningOff == {c \in Classes : Override(c, "versioning") # None}

\* the classes with versioning on and create_tables off
CreateTablesOff(o) ==
    {c \in Classes : option(o, c, "versioning") /\ ~option(o, c, "create_tables")}

\* the keys of the table map that are proper supertypes of c
AncestorKeys(tabs, c) == {K \in SeqToSet(Keys(tabs)) : K # c /\ issubclass(c, K)}

\* the classes that have gone into the tables of the map
DerivedInto(tabs) == UNION {tabs[k].table.cols : k \in 1..Len(tabs)}

\* C19 as claimed: a class whose own versioning option is off never has an
\* entry in the table map, a version class or a mirrored relationship, no
\* notification is fired for it, and it is out of the list when the pass
\* empties it; for a class with versioning on and create_tables off a pass
\* adds no entry of its own to the table map, and it is given a version
\* class only when a supertype of it is a key of the table map
C19_OptionsOffAsClaimed ==
    /\ [](\A c \in OwnVersioningOff :
            /\ ~InTables(tables, c)
            /\ version_class_map[c] = NoClass
            /\ MirroredOn(relationships, c) = {}
            /\ EventsOf(log, "after_version_class_built", c) = {})
    /\ [](pc \in {"build_relationships", "finishing"} => pending_classes = <<>>)
    /\ [][\A c \in CreateTablesOff(options) :
            /\ BuildTablesStep => (InTables(tables', c) <=> InTables(tables, c))
            /\ version_class_map'[c] # version_class_map[c] =>
                  AncestorKeys(tables, c) # {}]_vars

\* C19 as amended.  A class whose own versioning option is off never gets
\* an entry in the table map, a place in a table, a version class or a
\* mirrored relationship, a pass fires no notification and runs no
\* RelationshipBuilder for it, and it is out of the list with the others
\* when the pass empties it.  For a class with versioning on and
\* create_tables off a pass derives no table: it is no new key and goes into
\* no table; it is given a version class only when closest_matching_table
\* finds a table for it, that of a supertype or its own entry left by an
\* earlier pass, and the version class is built on that table
C19_OptionsOff ==
    /\ [](\A c \in OwnVersioningOff :
            /\ ~InTables(tables, c)
            /\ c \notin DerivedInto(tables)
            /\ version_class_map[c] = NoClass
            /\ MirroredOn(relationships, c) = {}
            /\ \A k \in 1..Len(log) : log[k][2] # c)
    /\ [](pc \in {"build_relationships", "finishing"} =>
             /\ pending_classes = <<>>
             /\ SeqToSet(entry.pending) \cap OwnVersioningOff \subseteq SeqToSet(copies))
    /\ [][BuildTablesStep =>
            \A c \in CreateTablesOff(options) :
                /\ InTables(tables', c) <=> InTables(tables, c)
                /\ c \in DerivedInto(tables') => c \in DerivedInto(tables)]_vars
    /\ [][\A c \in CreateTablesOff(options) :
            version_class_map'[c] # version_class_map[c] =>
                /\ closest_matching_table(tables, c) # NoTable
                /\ version_class_map'[c].table = closest_matching_table(tables, c).name
                /\ InTables(tables, c) \/ AncestorKeys(tables, c) # {}]_vars

\* with create_tables off the build_models loop has gone over Tag, whose own
\* versioning option is off, and Memo: Memo, no key of the table map, has
\* its version class on the table an earlier pass derived for Post
C19_Witness ==
    /\ pc = "after_build_models"
    /\ ~options["create_tables"]
    /\ pending_classes = <<"Tag", "Memo">>
    /\ ~InTables(tables, "Memo")
    /\ InTables(tables, "Post")
    /\ version_class_map["Memo"] = [model |-> "Memo", table |-> "post"]
    /\ version_class_map["Post"] = NoClass

====
